---- MODULE Spec2Model ----
(***************************************************************************)
(* A model of the sulid crate: the 128-bit Sulid identifier                *)
(* (src/src/sulid.rs) and the SulidGenerator (src/src/generator.rs).       *)
(*                                                                         *)
(* Unsigned machine integers are modelled bit-exactly.  A value of type    *)
(* uN is the set of the positions of its 1 bits, a subset of 0..N-1 with   *)
(* position 0 the least significant bit: 5 is {0, 2}, u128::MAX is 0..127. *)
(* Bitwise operators are then set operators, shifts move positions, and    *)
(* addition is a ripple-carry over the positions, so the 128-bit width and *)
(* its overflow are kept although TLC's own integers are 32 bits wide.     *)
(***************************************************************************)
EXTENDS Integers, Sequences, FiniteSets, TLC

VARIABLES
    \* ---- callers of the identifier type (SpecSulid) ----
    sulid,      \* the identifier the caller currently holds (u128)
    op,         \* the last operation the caller applied
    arg,        \* the arguments of the last from_parts call: <<t, r, d, m>>
    self,       \* the identifier the last operation was applied to
    res,        \* outcome of the last operation: "Ok", "Some", "None", "Overflow"
    base,       \* the identifier the current chain of increments started from
    nIncr,      \* successful increments since base
    \* ---- a caller building two identifiers to compare (SpecOrder) ----
    inA, inB,   \* the from_parts arguments of each
    idA, idB,   \* the identifiers built, <<id>>, NotBuilt before
    txtA, txtB, \* their text encodings, NotBuilt before
    \* ---- the generator and its concurrent callers (Spec) ----
    ctor,       \* the constructor call made: [fn, a, b], NoCtor before
    gen,        \* the generator: [version, ...], NoGen before, PanickedGen
    rngLock,    \* Mutex<StdRng>: the thread holding the guard, or Free
    rngState,   \* state of the StdRng: the number of values drawn so far
    pc,         \* pc[th]: where thread th is inside generate()
    now,        \* now[th]: the SystemTime read by th's current call
    seen,       \* seen[th]: the RNG state th's current draw read
    drawn,      \* drawn[th]: the u128 th's current call drew
    ret,        \* what the last finished call returned: <<[id, now, drawn]>>, or <<>>
    calls,      \* generate() calls started so far
    consumed,   \* the RNG states consumed by the draws so far, in order
    \* ---- a caller converting between identifiers and text (SpecText) ----
    value,      \* the identifier the caller starts from (u128)
    text,       \* the text the caller holds: a sequence of ASCII codes
    decoded,    \* the last decoding's result: [kind, val, via]
    reencoded,  \* the text of the decoded identifier, <<>> before
    textOp,     \* the last conversion the caller applied
    \* ---- a caller building identifiers from datetimes (SpecDatetime) ----
    dtA, dtB,   \* the arguments of each call: [datetime, draw, dc, mid]
    outA, outB, \* the identifiers built, <<id>>, NotBuilt before
    back        \* datetime() of the first identifier, <<>> before

sulidVars == <<sulid, op, arg, self, res, base, nIncr>>
orderVars == <<inA, inB, idA, idB, txtA, txtB>>
genVars   == <<ctor, gen, rngLock, rngState, pc, now, seen, drawn, ret, calls, consumed>>
textVars  == <<value, text, decoded, reencoded, textOp>>
dtVars    == <<dtA, dtB, outA, outB, back>>
vars      == <<sulidVars, orderVars, genVars, textVars, dtVars>>

-----------------------------------------------------------------------------
(* Bounds of the model *)

\* the small integers 0..MaxSmall are among the sampled field values
MaxSmall == 2
\* consecutive increments a caller applies to one identifier
MaxIncr == 3
\* threads calling generate() on the one generator
NumThreads == 2
\* generate() calls the threads make in all
MaxCalls == 3

-----------------------------------------------------------------------------
(* Machine integers *)

\* the bits of a small natural number
Bits(n) == {i \in 0..30 : (n \div (2 ^ i)) % 2 = 1}

\* `x as uW`: truncation to the low w bits (zero extension changes nothing)
As(x, w) == x \cap (0..(w - 1))

\* `x << k` on a w-bit type: bits shifted past the top are lost
Shl(x, k, w) == {i + k : i \in {j \in x : j + k < w}}

\* `x >> k`
Shr(x, k) == {i - k : i \in {j \in x : j >= k}}

\* `x & y`, `x | y`
BitAnd(x, y) == x \cap y
BitOr(x, y) == x \cup y

\* x < y, x <= y as unsigned integers: the highest differing bit is y's
Lt(x, y) == \E i \in y \ x : \A j \in x \ y : j < i
Le(x, y) == x = y \/ Lt(x, y)

\* the carry into position i of x + y: some lower position generates a carry
\* (both bits set) and every position between propagates it (a bit set)
Carry(x, y, i) ==
    \E j \in x \cap y : j < i /\ ((j + 1)..(i - 1)) \subseteq (x \cup y)

\* `x + y` on a w-bit type: the wrapped sum and whether it overflowed
\* (an overflowing `+` panics in a debug build and wraps in a release build)
Add(x, y, w) ==
    [val |-> {i \in 0..(w - 1) : ((i \in x) # (i \in y)) # Carry(x, y, i)},
     overflow |-> Carry(x, y, w)]

\* the borrow from position i of x - y: some lower position borrows (0 - 1)
\* and no position between absorbs the borrow (1 - 0)
Borrow(x, y, i) ==
    \E j \in y \ x : j < i /\ \A k \in x \ y : k <= j \/ k >= i

\* `x - y` on a w-bit type: the wrapped difference and whether it overflowed
Sub(x, y, w) ==
    [val |-> {i \in 0..(w - 1) : ((i \in x) # (i \in y)) # Borrow(x, y, i)},
     overflow |-> Borrow(x, y, w)]

-----------------------------------------------------------------------------
(* The identifier type, src/src/sulid.rs *)

TIME_BITS == 48
RAND_BITS == 70
DATA_CENTER_BITS == 5
MACHINE_BITS == 5

\* bitmask!($len => $int_ty): ((1u128 << $len) - 1) as $int_ty, w the width of $int_ty
bitmask(len, w) == As(Sub(Shl(Bits(1), len, 128), Bits(1), 128).val, w)

\* the masks from_parts, the projections and increment use
bitmask_timestamp_ms == bitmask(TIME_BITS, 64)
bitmask_random == bitmask(RAND_BITS, 128)
bitmask_data_center_id == bitmask(DATA_CENTER_BITS, 8)
bitmask_machine_id == bitmask(MACHINE_BITS, 8)
bitmask_data_center_u128 == bitmask(DATA_CENTER_BITS, 128)
bitmask_machine_u128 == bitmask(MACHINE_BITS, 128)
bitmask_time_u128 == bitmask(TIME_BITS, 128)
MAX_RANDOM == bitmask(RAND_BITS, 128)

from_u128(u) == u

u128(s) == s

nil == {}

is_nil(s) == s = {}

\* from_parts without the masking of data_center_id
from_parts_unmasked(timestamp_ms, random, data_center_id, machine_id) ==
    BitOr(BitOr(BitOr(
        Shl(As(BitAnd(timestamp_ms, bitmask_timestamp_ms), 128),
            RAND_BITS + DATA_CENTER_BITS + MACHINE_BITS, 128),
        Shl(BitAnd(random, bitmask_random), DATA_CENTER_BITS + MACHINE_BITS, 128)),
        Shl(As(data_center_id, 128), MACHINE_BITS, 128)),
        As(BitAnd(machine_id, bitmask_machine_id), 128))

\* from_parts with the timestamp shifted without counting MACHINE_BITS
from_parts_time_shift75(timestamp_ms, random, data_center_id, machine_id) ==
    BitOr(BitOr(BitOr(
        Shl(As(BitAnd(timestamp_ms, bitmask_timestamp_ms), 128),
            RAND_BITS + DATA_CENTER_BITS, 128),
        Shl(BitAnd(random, bitmask_random), DATA_CENTER_BITS + MACHINE_BITS, 128)),
        Shl(As(BitAnd(data_center_id, bitmask_data_center_id), 128), MACHINE_BITS, 128)),
        As(BitAnd(machine_id, bitmask_machine_id), 128))

\* the value from_parts packs (the `assert` feature off: nothing is checked)
from_parts(timestamp_ms, random, data_center_id, machine_id) ==
    LET time_part == As(BitAnd(timestamp_ms, bitmask_timestamp_ms), 128)
        rand_part == BitAnd(random, bitmask_random)
        data_center_part == As(BitAnd(data_center_id, bitmask_data_center_id), 128)
        machine_part == As(BitAnd(machine_id, bitmask_machine_id), 128)
    IN BitOr(BitOr(BitOr(
           Shl(time_part, RAND_BITS + DATA_CENTER_BITS + MACHINE_BITS, 128),
           Shl(rand_part, DATA_CENTER_BITS + MACHINE_BITS, 128)),
           Shl(data_center_part, MACHINE_BITS, 128)),
           machine_part)

\* timestamp_ms shifting without counting MACHINE_BITS
timestamp_ms_shift75(s) == As(Shr(s, RAND_BITS + DATA_CENTER_BITS), 64)

timestamp_ms(s) == As(Shr(s, RAND_BITS + DATA_CENTER_BITS + MACHINE_BITS), 64)

random(s) == BitAnd(Shr(s, DATA_CENTER_BITS + MACHINE_BITS), bitmask_random)

data_center_id(s) == As(BitAnd(Shr(s, MACHINE_BITS), bitmask_data_center_u128), 8)

machine_id(s) == As(BitAnd(s, bitmask_machine_u128), 8)

\* increment adding at the data-center offset
increment_wrong_offset(s) ==
    IF BitAnd(Shr(s, DATA_CENTER_BITS + MACHINE_BITS), MAX_RANDOM) = MAX_RANDOM
    THEN [kind |-> "None", val |-> s]
    ELSE LET sum == Add(s, Shl(Bits(1), MACHINE_BITS, 128), 128)
         IN [kind |-> IF sum.overflow THEN "Overflow" ELSE "Some", val |-> sum.val]

\* increment testing the low 70 bits, as if the random field were the lowest
increment_no_shift(s) ==
    IF BitAnd(s, MAX_RANDOM) = MAX_RANDOM
    THEN [kind |-> "None", val |-> s]
    ELSE LET sum == Add(s, Shl(Bits(1), DATA_CENTER_BITS + MACHINE_BITS, 128), 128)
         IN [kind |-> IF sum.overflow THEN "Overflow" ELSE "Some", val |-> sum.val]

\* increment stepping the random field by two
increment_by_two(s) ==
    IF BitAnd(Shr(s, DATA_CENTER_BITS + MACHINE_BITS), MAX_RANDOM) = MAX_RANDOM
    THEN [kind |-> "None", val |-> s]
    ELSE LET sum == Add(s, Shl(Bits(2), DATA_CENTER_BITS + MACHINE_BITS, 128), 128)
         IN [kind |-> IF sum.overflow THEN "Overflow" ELSE "Some", val |-> sum.val]

\* increment giving up one value early: None already when only the lowest bit
\* of the random field is clear
increment_none_early(s) ==
    IF BitOr(BitAnd(Shr(s, DATA_CENTER_BITS + MACHINE_BITS), MAX_RANDOM), Bits(1)) = MAX_RANDOM
    THEN [kind |-> "None", val |-> s]
    ELSE LET sum == Add(s, Shl(Bits(1), DATA_CENTER_BITS + MACHINE_BITS, 128), 128)
         IN [kind |-> IF sum.overflow THEN "Overflow" ELSE "Some", val |-> sum.val]

\* increment(): None, or Some(val); "Overflow" is the `+` overflowing u128
increment(s) ==
    IF BitAnd(Shr(s, DATA_CENTER_BITS + MACHINE_BITS), MAX_RANDOM) = MAX_RANDOM
    THEN [kind |-> "None", val |-> s]
    ELSE LET sum == Add(s, Shl(Bits(1), DATA_CENTER_BITS + MACHINE_BITS, 128), 128)
         IN [kind |-> IF sum.overflow THEN "Overflow" ELSE "Some", val |-> sum.val]

\* impl From<Sulid> for (u64, u128, u8, u8)
into_parts(s) == <<timestamp_ms(s), random(s), data_center_id(s), machine_id(s)>>

\* impl From<(u64, u128, u8, u8)> for Sulid
from_tuple(p) == from_parts(p[1], p[2], p[3], p[4])

\* Sulid::array_to_str / to_string: Crockford Base32 of the 128 bits, 26 characters,
\* most significant first; a text is the sequence of its characters' ASCII codes
ULID_LEN == 26

\* "0123456789ABCDEFGHJKMNPQRSTVWXYZ"
ALPHABET ==
    <<48, 49, 50, 51, 52, 53, 54, 55, 56, 57,
      65, 66, 67, 68, 69, 70, 71, 72, 74, 75, 77, 78,
      80, 81, 82, 83, 84, 86, 87, 88, 89, 90>>

\* the number 0..31 that the 5 bits of s from position lo upward spell
Quintet(s, lo) ==
    (IF lo \in s THEN 1 ELSE 0) + (IF lo + 1 \in s THEN 2 ELSE 0)
    + (IF lo + 2 \in s THEN 4 ELSE 0) + (IF lo + 3 \in s THEN 8 ELSE 0)
    + (IF lo + 4 \in s THEN 16 ELSE 0)

\* base32 encode: buffer[ULID_LEN - 1 - i] = ALPHABET[(value >> 5 i) & 0x1f]
encode(s) == [k \in 1..ULID_LEN |-> ALPHABET[Quintet(s, 5 * (ULID_LEN - k)) + 1]]

array_to_str(s) == encode(s)

\* the order of str: byte-wise lexicographic (the texts compared have equal length)
TextLt(a, b) ==
    \E k \in 1..Len(a) : a[k] < b[k] /\ \A j \in 1..(k - 1) : a[j] = b[j]

-----------------------------------------------------------------------------
(* Sampled inputs *)

Small == {Bits(n) : n \in 0..MaxSmall}

\* u64 timestamps: small ones, the largest 48-bit one, and ones wider than 48 bits
T64Samples == Small \cup {0..47, {48}, {0, 48}, 0..63}

\* u128 random values: small ones, around the largest 70-bit one, and wider ones
R128Samples == Small \cup {0..69, 1..69, {70}, 0..127}

\* u8 identity values: in 0..31 and beyond
ID8Samples == {Bits(0), Bits(1), Bits(31), Bits(32), Bits(33), Bits(255)}

PartsSamples == {<<t, r, d, m>> : t \in T64Samples, r \in R128Samples,
                                  d \in ID8Samples, m \in ID8Samples}

\* the contents of a 70-bit random field: small, and up to the three largest
RandFieldSamples == Small \cup {0..69, 1..69, {0} \cup (2..69), 0..68, {69}}
TimeFieldSamples == {{}, {0}, 0..47}
IdFieldSamples == {Bits(0), Bits(1), Bits(31)}

\* raw u128 values: every combination of the field contents above, laid out in
\* the four fields, and the 0x4141...41 of tests::test_static
Pattern41 == {i \in 0..127 : i % 8 \in {0, 6}}
U128Samples ==
    {Shl(t, 80, 128) \cup Shl(r, 10, 128) \cup Shl(d, 5, 128) \cup m :
        t \in TimeFieldSamples, r \in RandFieldSamples,
        d \in IdFieldSamples, m \in IdFieldSamples}
    \cup {Pattern41}

-----------------------------------------------------------------------------
(* SpecSulid: a caller of the identifier type.  It is handed either a raw u128 *)
(* or a tuple of parts, constructs the identifier, and then takes it apart,    *)
(* rebuilds it and increments it.                                              *)

\* an identifier or text not built yet; a built one is held as <<id>>, a text as
\* its 26 characters
NotBuilt == <<>>
\* the mutex is free; otherwise rngLock is the thread holding its guard
Free == 0
Threads == 1..NumThreads

\* no constructor called yet, and no generator
NoCtor == [fn |-> "none", a |-> {}, b |-> {}]
NoGen == [version |-> "None", data_center_id |-> {}, machine_id |-> {}, worker_id |-> {}]
\* the constructor panicked: there is no generator
PanickedGen == [version |-> "Panicked", data_center_id |-> {}, machine_id |-> {}, worker_id |-> {}]

\* SystemTime::UNIX_EPOCH; a SystemTime is its distance from the epoch, before
\* or after it: secs (u64) and nanos (0..999999999)
UNIX_EPOCH == [before |-> FALSE, secs |-> {}, nanos |-> 0]

OrderIdle ==
    /\ inA = <<>> /\ inB = <<>>
    /\ idA = NotBuilt /\ idB = NotBuilt
    /\ txtA = NotBuilt /\ txtB = NotBuilt

GenIdle ==
    /\ ctor = NoCtor /\ gen = NoGen
    /\ rngLock = Free /\ rngState = 0
    /\ pc = [th \in Threads |-> "idle"]
    /\ now = [th \in Threads |-> UNIX_EPOCH]
    /\ seen = [th \in Threads |-> 0]
    /\ drawn = [th \in Threads |-> {}]
    /\ ret = <<>>
    /\ calls = 0
    /\ consumed = <<>>

\* no decoding made yet
NotDecoded == [kind |-> "none", val |-> <<>>, via |-> "none"]

TextIdle ==
    /\ value = nil /\ text = <<>> /\ decoded = NotDecoded
    /\ reencoded = <<>> /\ textOp = "none"

NoDatetimeArgs == [datetime |-> UNIX_EPOCH, draw |-> {}, dc |-> {}, mid |-> {}]

DatetimeIdle ==
    /\ dtA = NoDatetimeArgs /\ dtB = NoDatetimeArgs
    /\ outA = NotBuilt /\ outB = NotBuilt /\ back = <<>>

SulidIdle ==
    /\ sulid = nil /\ op = "none" /\ arg = <<>> /\ self = nil
    /\ res = "Ok" /\ base = nil /\ nIncr = 0

InitSulid ==
    /\ sulid = nil /\ op = "none" /\ self = nil
    /\ res = "Ok" /\ base = nil /\ nIncr = 0
    /\ arg \in {<<u>> : u \in U128Samples} \cup PartsSamples
    /\ OrderIdle /\ GenIdle /\ TextIdle /\ DatetimeIdle

\* Sulid::from_u128(u)
FromU128 ==
    /\ op = "none" /\ Len(arg) = 1
    /\ sulid' = from_u128(arg[1])
    /\ op' = "from_u128"
    /\ self' = sulid' /\ base' = sulid' /\ nIncr' = 0 /\ res' = "Ok"
    /\ UNCHANGED <<arg, orderVars, genVars, textVars, dtVars>>

\* Sulid::from_parts(t, r, d, m)
FromParts ==
    /\ op = "none" /\ Len(arg) = 4
    /\ sulid' = from_parts(arg[1], arg[2], arg[3], arg[4])
    /\ op' = "from_parts"
    /\ self' = sulid' /\ base' = sulid' /\ nIncr' = 0 /\ res' = "Ok"
    /\ UNCHANGED <<arg, orderVars, genVars, textVars, dtVars>>

\* let parts: (u64, u128, u8, u8) = sulid.into()
IntoParts ==
    /\ op \in {"from_u128", "from_parts", "increment"}
    /\ arg' = into_parts(sulid)
    /\ op' = "into_parts"
    /\ self' = sulid /\ res' = "Ok"
    /\ UNCHANGED <<sulid, base, nIncr, orderVars, genVars, textVars, dtVars>>

\* Sulid::from(parts)
FromTuple ==
    /\ op = "into_parts"
    /\ sulid' = from_tuple(arg)
    /\ op' = "from_tuple"
    /\ res' = "Ok"
    /\ UNCHANGED <<arg, self, base, nIncr, orderVars, genVars, textVars, dtVars>>

\* sulid.increment(): on Some the caller goes on with the new identifier
Increment ==
    /\ op \in {"from_u128", "from_parts", "increment"}
    /\ res # "None"
    /\ nIncr < MaxIncr
    /\ LET o == increment(sulid)
       IN /\ res' = o.kind
          /\ sulid' = IF o.kind = "None" THEN sulid ELSE o.val
          /\ nIncr' = IF o.kind = "None" THEN nIncr ELSE nIncr + 1
    /\ self' = sulid
    /\ op' = "increment"
    /\ UNCHANGED <<arg, base, orderVars, genVars, textVars, dtVars>>

NextSulid == FromU128 \/ FromParts \/ IntoParts \/ FromTuple \/ Increment

SpecSulid == InitSulid /\ [][NextSulid]_vars

-----------------------------------------------------------------------------
(* Claims about the identifier type, checked under SpecSulid *)

\* the four fields of a u128 as raw bit positions
TimeField == 80..127
RandField == 10..79
IdentityField == 0..9

\* C1: rebuilding an identifier from its own projections gives back the same
\* identifier: Sulid::from(<(u64, u128, u8, u8)>::from(s)) == s.
C1_PartsRoundTrip ==
    op = "from_tuple" => sulid = self

C1_Witness ==
    /\ op = "from_tuple" /\ sulid = self
    /\ self \cap TimeField # {} /\ self \cap RandField # {}
    /\ self \cap (5..9) # {} /\ self \cap (0..4) # {}
    /\ arg = into_parts(self)

\* C2: with the assert feature off, from_parts never fails and the projections
\* of its result are the inputs reduced to their widths (t mod 2^48, r mod 2^70,
\* d mod 32, m mod 32); data_center_id = 32 gives what data_center_id = 0 gives;
\* every bit of the result is the bit of the one field it belongs to.
C2_FromPartsMasks ==
    op = "from_parts" =>
        /\ res = "Ok"
        /\ timestamp_ms(sulid) = As(arg[1], 48)
        /\ random(sulid) = As(arg[2], 70)
        /\ data_center_id(sulid) = As(arg[3], 5)
        /\ machine_id(sulid) = As(arg[4], 5)
        /\ arg[3] = Bits(32) => sulid = from_parts(arg[1], arg[2], Bits(0), arg[4])
        /\ sulid = {i + 80 : i \in As(arg[1], 48)} \cup {i + 10 : i \in As(arg[2], 70)}
                   \cup {i + 5 : i \in As(arg[3], 5)} \cup As(arg[4], 5)

C2_Witness ==
    /\ op = "from_parts"
    /\ arg = <<{0, 48}, 0..127, Bits(32), Bits(33)>>
    /\ sulid = {80} \cup RandField \cup {0}

\* C3: when the random field of s is not all ones, increment() returns Some(s')
\* with random(s') = random(s) + 1 and with the timestamp and identity fields
\* (the high 48 and the low 10 bits) those of s, without overflowing u128; over
\* consecutive increments the fields stay those of the first identifier and the
\* random field has grown by the number of increments.
C3_IncrementFrame ==
    op = "increment" =>
        /\ random(self) # 0..69 =>
            /\ res = "Some"
            /\ random(sulid) = Add(random(self), Bits(1), 128).val
            /\ timestamp_ms(sulid) = timestamp_ms(self)
            /\ data_center_id(sulid) = data_center_id(self)
            /\ machine_id(sulid) = machine_id(self)
            /\ sulid \cap TimeField = self \cap TimeField
            /\ sulid \cap IdentityField = self \cap IdentityField
        /\ sulid \cap TimeField = base \cap TimeField
        /\ sulid \cap IdentityField = base \cap IdentityField
        /\ random(sulid) = Add(random(base), Bits(nIncr), 128).val
        /\ ~Add(random(base), Bits(nIncr), 70).overflow

C3_Witness ==
    /\ op = "increment" /\ res = "Some" /\ nIncr >= 2
    /\ base \cap TimeField = TimeField
    /\ base \cap IdentityField = IdentityField
    /\ random(base) = 0..68
    /\ sulid \cap RandField = {79, 10}

\* C4: increment() returns None exactly when the 70-bit random field is all
\* ones, whatever the other bits are; otherwise it returns Some of a greater
\* identifier: it never wraps around and the addition never overflows.
C4_IncrementNone ==
    op = "increment" =>
        /\ res \in {"Some", "None"}
        /\ res = "None" <=> RandField \subseteq self
        /\ res = "None" => sulid = self
        /\ res = "Some" => Lt(self, sulid) /\ Lt(random(self), random(sulid))

C4_Witness ==
    /\ op = "increment" /\ res = "None"
    /\ self \cap RandField = RandField
    /\ self \cap TimeField = {80}
    /\ self \cap IdentityField = {}

\* identifiers with the timestamp and identity fields of s: the sampled ones and
\* s with each sampled content of the random field
SameIdentity(x, s) ==
    /\ timestamp_ms(x) = timestamp_ms(s)
    /\ data_center_id(x) = data_center_id(s)
    /\ machine_id(x) = machine_id(s)
Siblings(s) ==
    {x \in U128Samples : SameIdentity(x, s)}
    \cup {(s \ RandField) \cup {i + 10 : i \in r} : r \in RandFieldSamples}

\* C6: when increment() on s returns Some(s'), s' is strictly greater than s and
\* no identifier with the timestamp and identity fields of s lies strictly between.
C6_IncrementSuccessor ==
    op = "increment" /\ res = "Some" =>
        /\ Lt(self, sulid)
        /\ \A x \in Siblings(self) : SameIdentity(x, self) /\ ~(Lt(self, x) /\ Lt(x, sulid))

C6_Witness ==
    /\ op = "increment" /\ res = "Some"
    /\ self \cap IdentityField # {}
    /\ \E x \in Siblings(self) : Lt(x, self)
    /\ \E x \in Siblings(self) : Lt(sulid, x)
    /\ sulid \in Siblings(self)

-----------------------------------------------------------------------------
(* SpecOrder: a caller that builds two identifiers with from_parts, encodes *)
(* both as text and compares them.                                          *)

OrderT64 == Small \cup {0..47, {48}, 0..63}
OrderR128 == {{}, 0..69, 0..127}
OrderId8 == {<<Bits(0), Bits(0)>>, <<Bits(31), Bits(31)>>, <<Bits(255), Bits(32)>>}
OrderParts == {<<t, r, dm[1], dm[2]>> : t \in OrderT64, r \in OrderR128, dm \in OrderId8}

InitOrder ==
    /\ inA \in OrderParts /\ inB \in OrderParts
    /\ idA = NotBuilt /\ idB = NotBuilt
    /\ txtA = NotBuilt /\ txtB = NotBuilt
    /\ SulidIdle /\ GenIdle /\ TextIdle /\ DatetimeIdle

\* let a = Sulid::from_parts(..)
BuildA ==
    /\ idA = NotBuilt
    /\ idA' = <<from_parts(inA[1], inA[2], inA[3], inA[4])>>
    /\ UNCHANGED <<inA, inB, idB, txtA, txtB, sulidVars, genVars, textVars, dtVars>>

\* let b = Sulid::from_parts(..)
BuildB ==
    /\ idA # NotBuilt /\ idB = NotBuilt
    /\ idB' = <<from_parts(inB[1], inB[2], inB[3], inB[4])>>
    /\ UNCHANGED <<inA, inB, idA, txtA, txtB, sulidVars, genVars, textVars, dtVars>>

\* a.array_to_str(&mut buf)
EncodeA ==
    /\ idB # NotBuilt /\ txtA = NotBuilt
    /\ txtA' = array_to_str(idA[1])
    /\ UNCHANGED <<inA, inB, idA, idB, txtB, sulidVars, genVars, textVars, dtVars>>

\* b.array_to_str(&mut buf)
EncodeB ==
    /\ txtA # NotBuilt /\ txtB = NotBuilt
    /\ txtB' = array_to_str(idB[1])
    /\ UNCHANGED <<inA, inB, idA, idB, txtA, sulidVars, genVars, textVars, dtVars>>

NextOrder == BuildA \/ BuildB \/ EncodeA \/ EncodeB

SpecOrder == InitOrder /\ [][NextOrder]_vars

\* C5 as stated: for all u64 timestamps t1 < t2 and any random and identity
\* values, from_parts with t1 is less than from_parts with t2, as integers and
\* as texts.
C5_OrderAnyTimestamp ==
    txtB # NotBuilt /\ Lt(inA[1], inB[1]) =>
        Lt(idA[1], idB[1]) /\ TextLt(txtA, txtB)

\* C5 amended: for all timestamps t1 < t2 < 2^48 and any random and identity
\* values, the identifier from_parts builds with t1 is strictly less than the
\* one it builds with t2, in the u128 order and in the order of the texts.
C5_OrderWithin48Bits ==
    txtB # NotBuilt /\ Lt(inA[1], inB[1]) /\ Lt(inB[1], {48}) =>
        Lt(idA[1], idB[1]) /\ TextLt(txtA, txtB)

C5_Witness ==
    /\ txtB # NotBuilt
    /\ inA = <<Bits(1), 0..127, Bits(255), Bits(32)>>
    /\ inB = <<0..47, {}, Bits(0), Bits(0)>>
    /\ Lt(idA[1], idB[1]) /\ TextLt(txtA, txtB)

-----------------------------------------------------------------------------
(* Identifiers from a time and a randomness source, src/src/sulid.rs (std) *)

\* `x * y` on a w-bit type, y a small multiplier: the sum of x shifted to each
\* bit of y
RECURSIVE Mul(_, _, _)
Mul(x, y, w) ==
    IF y = {} THEN {}
    ELSE LET i == CHOOSE k \in y : TRUE
             \* both operands of the sum are computed once
         IN UNION {Add(part, rest, w).val :
                       part \in {Shl(x, i, w)}, rest \in {Mul(x, y \ {i}, w)}}

\* duration_since without the replacement of an Err by the zero duration
duration_since_epoch_unclamped(datetime) ==
    [secs |-> datetime.secs, nanos |-> datetime.nanos]

\* datetime.duration_since(SystemTime::UNIX_EPOCH).unwrap_or(Duration::ZERO):
\* an Err for a datetime before the epoch, replaced by the zero duration
duration_since_epoch(datetime) ==
    IF datetime.before /\ (datetime.secs # {} \/ datetime.nanos # 0)
    THEN [secs |-> {}, nanos |-> 0]
    ELSE [secs |-> datetime.secs, nanos |-> datetime.nanos]

\* Duration::as_millis: secs as u128 * 1000 + (nanos / 1_000_000) as u128
as_millis(d) ==
    UNION {Add(ms, sub_ms, 128).val :
               ms \in {Mul(As(d.secs, 128), Bits(1000), 128)},
               sub_ms \in {Bits(d.nanos \div 1000000)}}

\* from_datetime_with_source counting whole seconds instead of milliseconds
from_datetime_with_source_secs(datetime, draw, dc, mid) ==
    LET timestamp == duration_since_epoch(datetime).secs
        timebits == As(BitAnd(timestamp, bitmask_time_u128), 64)
        randbits == BitAnd(draw, bitmask_random)
    IN from_parts(timebits, randbits, dc, mid)

\* Sulid::from_datetime_with_source, `draw` the u128 that source.gen() returns
from_datetime_with_source(datetime, draw, dc, mid) ==
    LET timestamp == as_millis(duration_since_epoch(datetime))
        timebits == As(BitAnd(timestamp, bitmask_time_u128), 64)
        randbits == BitAnd(draw, bitmask_random)
    IN from_parts(timebits, randbits, dc, mid)

\* Sulid::v1_from_datetime_with_source, which generate() calls for a V1
\* generator: the V1 layout is the layout of from_parts
v1_from_datetime_with_source(datetime, draw, dc, mid) ==
    from_datetime_with_source(datetime, draw, dc, mid)

WORKER_BITS == 10
bitmask_worker_id == bitmask(WORKER_BITS, 16)
bitmask_worker_u128 == bitmask(WORKER_BITS, 128)

\* Sulid::v2_from_parts: timestamp(48) . random(70) . worker_id(10), each field
\* masked to its width
v2_from_parts(ts, rnd, wid) ==
    BitOr(BitOr(
        Shl(As(BitAnd(ts, bitmask_timestamp_ms), 128), RAND_BITS + WORKER_BITS, 128),
        Shl(BitAnd(rnd, bitmask_random), WORKER_BITS, 128)),
        As(BitAnd(wid, bitmask_worker_id), 128))

\* Sulid::v2_from_datetime_with_source, which generate() calls for a V2 generator
v2_from_datetime_with_source(datetime, draw, wid) ==
    LET timestamp == as_millis(duration_since_epoch(datetime))
        timebits == As(BitAnd(timestamp, bitmask_time_u128), 64)
        randbits == BitAnd(draw, bitmask_random)
    IN v2_from_parts(timebits, randbits, wid)

\* Sulid::worker_id of the V2 layout
worker_id(s) == As(BitAnd(s, bitmask_worker_u128), 16)

-----------------------------------------------------------------------------
(* The generator, src/src/generator.rs *)

\* v1_new checking data_center_id alone
inner_v1_new_one_check(dc, mid) ==
    IF ~Lt(dc, Bits(32)) THEN PanickedGen
    ELSE [version |-> "V1", data_center_id |-> dc, machine_id |-> mid, worker_id |-> {}]

\* no_std_feature::SulidGenerator::v1_new: both ids are asserted to be < 32
inner_v1_new(dc, mid) ==
    IF ~Lt(dc, Bits(32)) THEN PanickedGen
    ELSE IF ~Lt(mid, Bits(32)) THEN PanickedGen
    ELSE [version |-> "V1", data_center_id |-> dc, machine_id |-> mid, worker_id |-> {}]

\* no_std_feature::SulidGenerator::v2_new: assert!(worker_id < 32, ..)
inner_v2_new(w) ==
    IF ~Lt(w, Bits(32)) THEN PanickedGen
    ELSE [version |-> "V2", data_center_id |-> {}, machine_id |-> {}, worker_id |-> w]

\* std_feature::SulidGenerator::v1_new / v2_new: the inner generator, and then
\* the Mutex around a freshly seeded StdRng
v1_new(dc, mid) == inner_v1_new(dc, mid)
v2_new(w) == inner_v2_new(w)

\* generate() with the identity fields of a V1 generator passed in the wrong order
generate_swapped(g, datetime, draw) ==
    IF g.version = "V1"
    THEN v1_from_datetime_with_source(datetime, draw, g.machine_id, g.data_center_id)
    ELSE v2_from_datetime_with_source(datetime, draw, g.worker_id)

\* the identifier generate() returns: the match on the generator's version, with
\* the SystemTime::now() it read and the value its source draws
generate(g, datetime, draw) ==
    IF g.version = "V1"
    THEN v1_from_datetime_with_source(datetime, draw, g.data_center_id, g.machine_id)
    ELSE v2_from_datetime_with_source(datetime, draw, g.worker_id)

\* a guard that is leaked instead of dropped
unlock_never(th) == rngLock

\* the MutexGuard `rng` goes out of scope when generate() returns: the mutex
\* is free again
unlock(th) == IF rngLock = th THEN Free ELSE rngLock

\* a lock that is granted although the guard is held
lock_granted_always(th) == TRUE

\* self.rng.lock(): granted only while no thread holds the guard
lock_granted(th) == rngLock = Free

-----------------------------------------------------------------------------
(* Spec: one generator is constructed and NumThreads threads call generate() *)
(* on it concurrently, MaxCalls times in all.                                 *)

\* constructor arguments: in range, on the edges of the range and beyond
V1Args == {<<Bits(1), Bits(2)>>, <<Bits(31), Bits(0)>>,
           <<Bits(32), Bits(1)>>, <<Bits(1), Bits(32)>>, <<Bits(255), Bits(255)>>}
V2Args == {Bits(5), Bits(31), Bits(32), Bits(1023), Bits(1024), Bits(65535)}

\* readings of the clock: before the epoch, within a second of it, and so late
\* that the milliseconds need more than 48 bits
ClockSamples ==
    {[before |-> TRUE, secs |-> Bits(100), nanos |-> 0],
     [before |-> FALSE, secs |-> Bits(1), nanos |-> 999999999],
     [before |-> FALSE, secs |-> {40, 0}, nanos |-> 1000000]}

\* values the StdRng returns
DrawSamples == {Bits(1), 0..127, {70, 69}}

\* the generators the constructors return for the sampled arguments
Generators ==
    {g \in {v1_new(dm[1], dm[2]) : dm \in V1Args} \cup {v2_new(w) : w \in V2Args} :
        g.version \in {"V1", "V2"}}

\* what generate() returns, for every generator, clock reading and draw of the
\* samples: generate is a function of the three, evaluated here once for each
generated ==
    [g \in Generators, t \in ClockSamples, d \in DrawSamples |-> generate(g, t, d)]

Init ==
    /\ GenIdle /\ SulidIdle /\ OrderIdle /\ TextIdle /\ DatetimeIdle

\* SulidGenerator::v1_new(d, m)
V1New(d, m) ==
    /\ ctor = NoCtor
    /\ ctor' = [fn |-> "v1_new", a |-> d, b |-> m]
    /\ gen' = v1_new(d, m)
    /\ rngLock' = Free /\ rngState' = 0
    /\ UNCHANGED <<pc, now, seen, drawn, ret, calls, consumed, sulidVars, orderVars, textVars, dtVars>>

\* SulidGenerator::v2_new(w)
V2New(w) ==
    /\ ctor = NoCtor
    /\ ctor' = [fn |-> "v2_new", a |-> w, b |-> {}]
    /\ gen' = v2_new(w)
    /\ rngLock' = Free /\ rngState' = 0
    /\ UNCHANGED <<pc, now, seen, drawn, ret, calls, consumed, sulidVars, orderVars, textVars, dtVars>>

\* thread th calls generator.generate()
Call(th) ==
    /\ gen.version \in {"V1", "V2"}
    /\ pc[th] = "idle" /\ calls < MaxCalls
    /\ pc' = [pc EXCEPT ![th] = "lock"]
    /\ calls' = calls + 1
    /\ UNCHANGED <<ctor, gen, rngLock, rngState, now, seen, drawn, ret, consumed,
                   sulidVars, orderVars, textVars, dtVars>>

\* let mut rng = self.rng.lock().unwrap()
Lock(th) ==
    /\ pc[th] = "lock"
    /\ lock_granted(th)
    /\ rngLock' = th
    /\ pc' = [pc EXCEPT ![th] = "now"]
    /\ UNCHANGED <<ctor, gen, rngState, now, seen, drawn, ret, calls, consumed,
                   sulidVars, orderVars, textVars, dtVars>>

\* SystemTime::now(), the first argument of *_from_datetime_with_source
ReadClock(th) ==
    /\ pc[th] = "now"
    /\ \E c \in ClockSamples : now' = [now EXCEPT ![th] = c]
    /\ pc' = [pc EXCEPT ![th] = "gen"]
    /\ UNCHANGED <<ctor, gen, rngLock, rngState, seen, drawn, ret, calls, consumed,
                   sulidVars, orderVars, textVars, dtVars>>

\* source.gen::<u128>(), first half: the source's state is read
DrawRead(th) ==
    /\ pc[th] = "gen"
    /\ seen' = [seen EXCEPT ![th] = rngState]
    /\ pc' = [pc EXCEPT ![th] = "gen2"]
    /\ UNCHANGED <<ctor, gen, rngLock, rngState, now, drawn, ret, calls, consumed,
                   sulidVars, orderVars, textVars, dtVars>>

\* source.gen::<u128>(), second half: the value is produced from the state read
\* and the state after it is stored
DrawWrite(th) ==
    /\ pc[th] = "gen2"
    /\ \E v \in DrawSamples : drawn' = [drawn EXCEPT ![th] = v]
    /\ rngState' = seen[th] + 1
    /\ consumed' = Append(consumed, seen[th])
    /\ pc' = [pc EXCEPT ![th] = "pack"]
    /\ UNCHANGED <<ctor, gen, rngLock, now, seen, ret, calls, sulidVars, orderVars, textVars, dtVars>>

\* the identifier is packed and returned; the guard is dropped on return and the
\* call's locals are gone
Return(th) ==
    /\ pc[th] = "pack"
    /\ ret' = <<[id |-> generated[gen, now[th], drawn[th]],
                 now |-> now[th], drawn |-> drawn[th]]>>
    /\ rngLock' = unlock(th)
    /\ pc' = [pc EXCEPT ![th] = "idle"]
    /\ now' = [now EXCEPT ![th] = UNIX_EPOCH]
    /\ seen' = [seen EXCEPT ![th] = 0]
    /\ drawn' = [drawn EXCEPT ![th] = {}]
    /\ UNCHANGED <<ctor, gen, rngState, calls, consumed, sulidVars, orderVars, textVars, dtVars>>

Next ==
    \/ \E dm \in V1Args : V1New(dm[1], dm[2])
    \/ \E w \in V2Args : V2New(w)
    \/ \E th \in Threads :
        Call(th) \/ Lock(th) \/ ReadClock(th) \/ DrawRead(th) \/ DrawWrite(th) \/ Return(th)

Spec == Init /\ [][Next]_vars

-----------------------------------------------------------------------------
(* Claims about the generator, checked under Spec *)

\* C7: v2_new(worker_id) succeeds for every worker_id in 0..=1023 and panics
\* only when worker_id exceeds 1023.
C7_V2NewRange ==
    ctor.fn = "v2_new" =>
        /\ gen.version = "V2" <=> ctor.a \subseteq 0..9
        /\ gen.version = "Panicked" <=> ~(ctor.a \subseteq 0..9)

\* C8: v1_new(data_center_id, machine_id) succeeds exactly when both values are
\* in 0..=31, and the generator then carries them; otherwise the call panics,
\* there is no generator and no identifier is ever produced.
C8_V1NewRange ==
    ctor.fn = "v1_new" =>
        /\ gen.version \in {"V1", "Panicked"}
        /\ gen.version = "V1" <=> (ctor.a \subseteq 0..4 /\ ctor.b \subseteq 0..4)
        /\ gen.version = "V1" => gen.data_center_id = ctor.a /\ gen.machine_id = ctor.b
        /\ gen.version = "Panicked" => ret = <<>> /\ calls = 0

C8_Witness ==
    /\ ctor = [fn |-> "v1_new", a |-> Bits(1), b |-> Bits(32)]
    /\ gen = PanickedGen

\* the milliseconds from the epoch to a clock reading, 0 for a reading before the
\* epoch, in 48 bits; 1000 secs is counted as 1024 secs - 16 secs - 8 secs
ClampedMillis48(t) ==
    IF t.before /\ (t.secs # {} \/ t.nanos # 0) THEN {}
    ELSE LET s1024 == Shl(t.secs, 10, 128)
             s1008 == Sub(s1024, Shl(t.secs, 4, 128), 128).val
             s1000 == Sub(s1008, Shl(t.secs, 3, 128), 128).val
         IN As(Add(s1000, Bits(t.nanos \div 1000000), 128).val, 48)

\* every identifier returned carries the identity the generator was constructed
\* with, the time its call read and the value its call drew
C9_Returned ==
    ret # <<>> =>
        /\ gen.version = "V1" =>
            /\ data_center_id(ret[1].id) = ctor.a
            /\ machine_id(ret[1].id) = ctor.b
        /\ gen.version = "V2" => ret[1].id \cap IdentityField = ctor.a
        /\ timestamp_ms(ret[1].id) = ClampedMillis48(ret[1].now)
        /\ random(ret[1].id) = As(ret[1].drawn, 70)

\* C9: after any interleaving of generate() calls on one generator, every
\* identifier returned has the identity fields the generator was constructed
\* with, the timestamp read during its call (milliseconds since the epoch,
\* clamped at 0, truncated to 48 bits) and that call's RNG draw masked to 70
\* bits; and no step changes the version or identity of a constructed generator.
C9_GenerateFields ==
    []C9_Returned /\ [][gen.version # "None" => gen' = gen]_vars

C9_Witness ==
    /\ ret # <<>> /\ calls >= 2
    /\ gen.version = "V1" /\ ctor.a = Bits(31) /\ ctor.b = Bits(0)
    /\ ret[1].now.secs = {40, 0} /\ ret[1].drawn = 0..127
    /\ ret[1].id = {i + 80 : i \in {0, 3, 5, 6, 7, 8, 9, 43, 45, 46, 47}}
                   \cup RandField \cup (5..9)
    /\ \E th \in Threads : pc[th] = "lock"

\* thread th is between taking the guard and dropping it
InCritical(th) == pc[th] \in {"now", "gen", "gen2", "pack"}

\* C10: access to the randomness source is mutually exclusive: at most one
\* caller is between lock and return, it holds the guard, the state a caller
\* read is still the source's state when it stores the next one, every call
\* draws exactly one value, and no RNG state is consumed by two calls.
C10_RngExclusive ==
    /\ \A a, b \in Threads : InCritical(a) /\ InCritical(b) => a = b
    /\ \A th \in Threads : InCritical(th) => rngLock = th
    /\ \A th \in Threads : pc[th] = "gen2" => seen[th] = rngState
    /\ \A i, j \in 1..Len(consumed) : consumed[i] = consumed[j] => i = j
    /\ rngState = Len(consumed)
    /\ calls = Len(consumed)
               + Cardinality({th \in Threads : pc[th] \in {"lock", "now", "gen", "gen2"}})

C10_Witness ==
    /\ Len(consumed) >= 1
    /\ \E a, b \in Threads : a # b /\ pc[a] = "gen2" /\ pc[b] = "lock" /\ rngLock = a

\* C11 as stated: no generate() call holds the randomness-source lock while it
\* reads the time source: the step that reads the clock is never taken by the
\* thread holding the guard.
C11_ClockOutsideLock ==
    [][\A th \in Threads :
        pc[th] = "now" /\ pc'[th] = "gen" => rngLock # th /\ rngLock' # th]_vars

-----------------------------------------------------------------------------
(* FairSpec: Spec with the scheduling that lets every started call go on: a *)
(* thread inside generate() whose next step stays possible takes it (weak   *)
(* fairness of the scheduler; a thread blocked in lock() is woken once the  *)
(* mutex stays free).  Nothing obliges a thread to call generate().         *)

\* the next step of thread th inside generate()
Step(th) ==
    Lock(th) \/ ReadClock(th) \/ DrawRead(th) \/ DrawWrite(th) \/ Return(th)

Fairness == \A th \in Threads : WF_vars(Step(th))

FairSpec == Spec /\ Fairness

\* some thread inside generate() can take a step
CanStep ==
    \E th \in Threads :
        \/ pc[th] \in {"now", "gen", "gen2", "pack"}
        \/ pc[th] = "lock" /\ lock_granted(th)

\* C12: every generate() call eventually returns an identifier; the lock a call
\* took is free again when the call returns; and while any call is in progress
\* some call can take a step, so no deadlock is reachable.
C12_GenerateReturns ==
    /\ \A th \in Threads : (pc[th] # "idle") ~> (pc[th] = "idle" /\ ret # <<>>)
    /\ [][\A th \in Threads : pc[th] = "pack" /\ pc'[th] = "idle" => rngLock' = Free]_vars
    /\ []((\E th \in Threads : pc[th] # "idle") => CanStep)

C12_Witness ==
    /\ Len(consumed) >= 2 /\ ret # <<>>
    /\ \E a, b \in Threads : a # b /\ pc[a] = "lock" /\ pc[b] = "pack" /\ rngLock = b

-----------------------------------------------------------------------------
(* Text decoding: Sulid::from_string and the codec it delegates to *)

\* the codec's marker of a character that stands for no digit
NO_VALUE == 255

\* the codec's lookup table: the digit 0..31 of an alphabet character, the same
\* digit for the lower-case form of a letter of the alphabet, NO_VALUE otherwise
LOOKUP(c) ==
    IF \E k \in 1..32 : ALPHABET[k] = c
    THEN (CHOOSE k \in 1..32 : ALPHABET[k] = c) - 1
    ELSE IF c >= 97 /\ \E k \in 11..32 : ALPHABET[k] = c - 32
    THEN (CHOOSE k \in 11..32 : ALPHABET[k] = c - 32) - 1
    ELSE NO_VALUE

\* the bits of a digit 0..31, moved up to position lo; bits past 127 are lost
\* (value << 5 on a u128)
Digit(q, lo) == {lo + b : b \in {a \in 0..4 : (q \div (2 ^ a)) % 2 = 1}} \cap (0..127)

\* the codec's decode: the length is checked first, then each character is
\* looked up and value = (value << 5) | digit, most significant character first
decode(encoded) ==
    IF Len(encoded) # ULID_LEN
    THEN [kind |-> "InvalidLength", val |-> <<>>]
    ELSE IF \E k \in 1..ULID_LEN : LOOKUP(encoded[k]) = NO_VALUE
    THEN [kind |-> "InvalidChar", val |-> <<>>]
    ELSE [kind |-> "Ok",
          val |-> <<UNION {Digit(LOOKUP(encoded[k]), 5 * (ULID_LEN - k)) :
                              k \in 1..ULID_LEN}>>]

\* from_string returning the nil identifier for every text that decodes
from_string_nil(encoded) ==
    LET r == decode(encoded)
    IN IF r.kind = "Ok" THEN [kind |-> "Ok", val |-> <<nil>>] ELSE r

\* from_string turning a decode error into the nil identifier
from_string_no_error(encoded) ==
    LET r == decode(encoded)
    IN IF r.kind = "Ok" THEN r ELSE [kind |-> "Ok", val |-> <<nil>>]

\* Sulid::from_string: Ok(int_val) => Ok(Sulid(int_val)), Err(err) => Err(err)
from_string(encoded) ==
    LET r == decode(encoded)
    IN IF r.kind = "Ok" THEN [kind |-> "Ok", val |-> <<from_u128(r.val[1])>>] ELSE r

\* impl FromStr for Sulid, impl TryFrom<&str> for Sulid
from_str(s) == from_string(s)
try_from(s) == from_string(s)

\* Sulid::to_string
to_string(s) == encode(s)

\* a text the codec itself produces: upper-case alphabet characters, the first
\* of them a digit 0..7 (26 characters hold 130 bits, an identifier has 128)
Canonical(t) ==
    /\ Len(t) = ULID_LEN
    /\ \A k \in 1..ULID_LEN : \E j \in 1..32 : ALPHABET[j] = t[k]
    /\ t[1] >= 48 /\ t[1] <= 55

-----------------------------------------------------------------------------
(* SpecText: a caller that turns an identifier into text, decodes a text    *)
(* through one of the three decoding entry points, and encodes the decoded  *)
(* identifier again.                                                        *)

\* "01D39ZY06FGSCTVN4T2V9PKHFZ"
Text01D ==
    <<48, 49, 68, 51, 57, 90, 89, 48, 54, 70, 71, 83, 67,
      84, 86, 78, 52, 84, 50, 86, 57, 80, 75, 72, 70, 90>>

\* the text with its upper-case letters in lower case
lower(t) == [k \in 1..Len(t) |-> IF t[k] >= 65 /\ t[k] <= 90 THEN t[k] + 32 ELSE t[k]]

BaseTexts == {Text01D, encode(Pattern41), encode(0..127)}

\* 0 7 8 9 A Z a z, the excluded I L O U i l o u, and characters around the
\* digits and the letters: space - / : @ [ ` {
CharSamples ==
    {48, 55, 56, 57, 65, 90, 97, 122, 73, 76, 79, 85, 105, 108, 111, 117,
     32, 45, 47, 58, 64, 91, 96, 123}

\* texts of 26 characters: well formed, in lower case, and with one character
\* replaced at the front, in the middle or at the end
Texts26 ==
    BaseTexts \cup {lower(t) : t \in BaseTexts}
    \cup {[t \in 1..ULID_LEN |-> 90]}
    \cup {[t EXCEPT ![k] = c] : t \in BaseTexts, k \in {1, 13, ULID_LEN}, c \in CharSamples}

\* texts of other lengths, with and without a character outside the alphabet
TextsOtherLen ==
    {<<>>} \cup {SubSeq(t, 1, ULID_LEN - 1) : t \in BaseTexts}
    \cup {t \o <<c>> : t \in BaseTexts, c \in {48, 73}}
    \cup {<<c>> : c \in CharSamples}

TextSamples == Texts26 \cup TextsOtherLen

InitText ==
    /\ decoded = NotDecoded /\ reencoded = <<>> /\ textOp = "none"
    /\ \/ value \in U128Samples /\ text = <<>>
       \/ value = nil /\ text \in TextSamples
    /\ SulidIdle /\ OrderIdle /\ GenIdle /\ DatetimeIdle

\* text = value.to_string()
Encode ==
    /\ textOp = "none"
    /\ text' = to_string(value)
    /\ textOp' = "to_string"
    /\ UNCHANGED <<value, decoded, reencoded, sulidVars, orderVars, genVars, dtVars>>

\* the result r of decoding the caller's text through entry point api
Decoded(r, api) ==
    /\ textOp \in {"none", "to_string"}
    /\ decoded' = [kind |-> r.kind, val |-> r.val, via |-> api]
    /\ textOp' = IF textOp = "to_string" THEN "round_trip" ELSE "decode"
    /\ UNCHANGED <<value, text, reencoded, sulidVars, orderVars, genVars, dtVars>>

\* Sulid::from_string(text)
FromString == Decoded(from_string(text), "from_string")

\* text.parse::<Sulid>()
FromStr == Decoded(from_str(text), "from_str")

\* Sulid::try_from(text)
TryFrom == Decoded(try_from(text), "try_from")

\* the decoded identifier's to_string()
Reencode ==
    /\ textOp \in {"decode", "round_trip"}
    /\ decoded.kind = "Ok"
    /\ reencoded' = to_string(decoded.val[1])
    /\ textOp' = "reencode"
    /\ UNCHANGED <<value, text, decoded, sulidVars, orderVars, genVars, dtVars>>

NextText == Encode \/ FromString \/ FromStr \/ TryFrom \/ Reencode

SpecText == InitText /\ [][NextText]_vars

\* C13 as stated: decoding the text of an identifier gives the identifier back,
\* and every text that decodes successfully is reproduced by encoding the
\* decoded identifier
C13_RoundTripAnyText ==
    /\ textOp = "round_trip" => decoded.kind = "Ok" /\ decoded.val = <<value>>
    /\ textOp = "reencode" => reencoded = text

\* C13: decoding the 26-character text of any identifier gives the identifier
\* back, and every canonical text (upper-case alphabet characters, the first one
\* at most '7') is reproduced by encoding the identifier it decodes to
C13_RoundTrip ==
    /\ textOp = "round_trip" =>
           Len(text) = ULID_LEN /\ decoded.kind = "Ok" /\ decoded.val = <<value>>
    /\ textOp = "reencode" /\ Canonical(text) => reencoded = text

C13_Witness ==
    /\ textOp = "reencode" /\ value = Pattern41
    /\ decoded.val = <<Pattern41>> /\ reencoded = text /\ Canonical(text)

\* the characters that stand for a digit: the alphabet and the lower-case forms
\* of its letters
AlphabetChars ==
    {48, 49, 50, 51, 52, 53, 54, 55, 56, 57}
    \cup ((65..90) \ {73, 76, 79, 85}) \cup ((97..122) \ {105, 108, 111, 117})

\* C16: decoding returns an identifier or one of the two typed errors: a text
\* whose length is not 26 gives InvalidLength, a text of 26 characters with a
\* character outside the alphabet gives InvalidChar, and no error carries an
\* identifier
C16_DecodeErrors ==
    textOp \in {"decode", "round_trip", "reencode"} =>
        /\ decoded.kind \in {"Ok", "InvalidLength", "InvalidChar"}
        /\ Len(text) # ULID_LEN => decoded.kind = "InvalidLength"
        /\ (Len(text) = ULID_LEN /\ \E k \in 1..ULID_LEN : text[k] \notin AlphabetChars)
               => decoded.kind = "InvalidChar"
        /\ decoded.kind # "Ok" => decoded.val = <<>>
        /\ decoded.kind = "Ok" => Len(decoded.val) = 1 /\ decoded.val[1] \subseteq 0..127

C16_Witness ==
    /\ textOp = "decode" /\ decoded.via = "try_from"
    /\ decoded.kind = "InvalidChar" /\ decoded.val = <<>>
    /\ Len(text) = ULID_LEN /\ text[13] = 85

-----------------------------------------------------------------------------
(* Identifiers from datetimes: Sulid::from_datetime_with_source, datetime()  *)

\* the number that the 15 bits of x from position lo upward spell
Limb(x, lo) == Quintet(x, lo) + 32 * Quintet(x, lo + 5) + 1024 * Quintet(x, lo + 10)

\* x / d and x % d for a u64 x and a small d, by long division over the five
\* 15-bit limbs of x: the quotient as bits, the remainder as a number
DivMod(x, d) ==
    LET t4 == Limb(x, 60)
        t3 == (t4 % d) * 32768 + Limb(x, 45)
        t2 == (t3 % d) * 32768 + Limb(x, 30)
        t1 == (t2 % d) * 32768 + Limb(x, 15)
        t0 == (t1 % d) * 32768 + Limb(x, 0)
    IN [q |-> UNION {Shl(Bits(t4 \div d), 60, 64), Shl(Bits(t3 \div d), 45, 64),
                     Shl(Bits(t2 \div d), 30, 64), Shl(Bits(t1 \div d), 15, 64),
                     Bits(t0 \div d)},
        r |-> t0 % d]

\* Duration::from_millis(millis): secs = millis / 1000,
\* nanos = (millis % 1000) * 1_000_000
from_millis(millis) ==
    LET parts == DivMod(As(millis, 64), 1000)
    IN [secs |-> parts.q, nanos |-> parts.r * 1000000]

\* SystemTime::UNIX_EPOCH + duration
epoch_plus(d) == [before |-> FALSE, secs |-> d.secs, nanos |-> d.nanos]

\* Sulid::datetime
datetime(s) ==
    LET stamp == timestamp_ms(s)
    IN epoch_plus(from_millis(stamp))

-----------------------------------------------------------------------------
(* SpecDatetime: a caller that builds two identifiers from datetimes with     *)
(* values drawn from a source it supplies, and reads the first one's         *)
(* datetime() back.                                                          *)

\* the whole seconds of 2^48 - 1 milliseconds: 281_474_976_710
MaxSecs48 == {1, 2, 6, 7, 8, 9, 11, 14, 16, 17, 18, 20, 21, 24, 27, 31, 32, 38}

\* datetimes: the epoch, 1 ns and 100 s before it, half a millisecond and almost
\* two seconds after it, two in the present, the last millisecond that 48 bits
\* hold and the one after it
DatetimeSamples ==
    {UNIX_EPOCH,
     [before |-> TRUE, secs |-> {}, nanos |-> 1],
     [before |-> TRUE, secs |-> Bits(100), nanos |-> 0],
     [before |-> FALSE, secs |-> {}, nanos |-> 500000],
     [before |-> FALSE, secs |-> Bits(1), nanos |-> 999999999],
     [before |-> FALSE, secs |-> Bits(1700000000), nanos |-> 123456789],
     [before |-> FALSE, secs |-> Bits(1700000000), nanos |-> 124000000],
     [before |-> FALSE, secs |-> MaxSecs48, nanos |-> 655999999],
     [before |-> FALSE, secs |-> MaxSecs48, nanos |-> 656000000]}

DatetimeArgs ==
    {[datetime |-> t, draw |-> r, dc |-> Bits(1), mid |-> Bits(2)] :
        t \in DatetimeSamples, r \in {Bits(123), 0..127}}

InitDatetime ==
    /\ dtA \in DatetimeArgs /\ dtB \in DatetimeArgs
    /\ outA = NotBuilt /\ outB = NotBuilt /\ back = <<>>
    /\ SulidIdle /\ OrderIdle /\ GenIdle /\ TextIdle

\* Sulid::from_datetime_with_source(datetime, source, data_center_id, machine_id)
FromDatetimeA ==
    /\ outA = NotBuilt
    /\ outA' = <<from_datetime_with_source(dtA.datetime, dtA.draw, dtA.dc, dtA.mid)>>
    /\ UNCHANGED <<dtA, dtB, outB, back, sulidVars, orderVars, genVars, textVars>>

FromDatetimeB ==
    /\ outB = NotBuilt
    /\ outB' = <<from_datetime_with_source(dtB.datetime, dtB.draw, dtB.dc, dtB.mid)>>
    /\ UNCHANGED <<dtA, dtB, outA, back, sulidVars, orderVars, genVars, textVars>>

\* the first identifier's datetime()
Datetime ==
    /\ outA # NotBuilt /\ back = <<>>
    /\ back' = <<datetime(outA[1])>>
    /\ UNCHANGED <<dtA, dtB, outA, outB, sulidVars, orderVars, genVars, textVars>>

NextDatetime == FromDatetimeA \/ FromDatetimeB \/ Datetime

SpecDatetime == InitDatetime /\ [][NextDatetime]_vars

\* the datetime lies before the epoch
BeforeEpoch(t) == t.before /\ (t.secs # {} \/ t.nanos # 0)

\* the datetime is less than 2^48 milliseconds after the epoch:
\* 2^48 ms = 281_474_976_710 s + 656 ms
Below48(t) ==
    \/ Lt(t.secs, MaxSecs48)
    \/ t.secs = MaxSecs48 /\ t.nanos \div 1000000 < 656

\* C14: an identifier built from a datetime at or before the epoch has
\* timestamp_ms() = 0 and datetime() = the epoch, and is always built; built
\* from a datetime at or after the epoch and below 2^48 ms, its timestamp_ms()
\* is the whole number of milliseconds since the epoch, rounded down
C14_EpochClamp ==
    /\ outA # NotBuilt /\ (BeforeEpoch(dtA.datetime) \/ dtA.datetime = UNIX_EPOCH) =>
           /\ timestamp_ms(outA[1]) = {}
           /\ back # <<>> => back[1] = UNIX_EPOCH
    /\ outA # NotBuilt /\ ~BeforeEpoch(dtA.datetime) /\ Below48(dtA.datetime) =>
           /\ timestamp_ms(outA[1]) = ClampedMillis48(dtA.datetime)
           /\ back # <<>> =>
                  /\ back[1].secs = dtA.datetime.secs
                  /\ back[1].nanos <= dtA.datetime.nanos
                  /\ dtA.datetime.nanos < back[1].nanos + 1000000
    /\ outA = NotBuilt => ENABLED FromDatetimeA

C14_Witness ==
    /\ dtA.datetime = [before |-> TRUE, secs |-> Bits(100), nanos |-> 0]
    /\ outA # NotBuilt /\ back = <<UNIX_EPOCH>>

\* datetime b lies in a strictly later millisecond than datetime a
LaterMillis(a, b) ==
    \/ /\ ~BeforeEpoch(a) /\ ~BeforeEpoch(b)
       /\ \/ Lt(a.secs, b.secs)
          \/ a.secs = b.secs /\ a.nanos \div 1000000 < b.nanos \div 1000000
    \/ BeforeEpoch(a) /\ ~BeforeEpoch(b)
    \/ /\ BeforeEpoch(a) /\ BeforeEpoch(b)
       /\ a.nanos = 0 /\ b.nanos = 0 /\ Lt(b.secs, a.secs)

\* both identifiers are built, from the same draw and the same identity
SameDrawBothBuilt ==
    /\ outA # NotBuilt /\ outB # NotBuilt
    /\ dtA.draw = dtB.draw /\ dtA.dc = dtB.dc /\ dtA.mid = dtB.mid

\* C17 as stated: equal inputs give equal identifiers, and a strictly later
\* millisecond gives a strictly greater identifier, for any two datetimes
C17_LaterIsGreaterAnyTime ==
    SameDrawBothBuilt =>
        /\ dtA.datetime = dtB.datetime => outA = outB
        /\ LaterMillis(dtA.datetime, dtB.datetime) => Lt(outA[1], outB[1])

\* C17: from_datetime_with_source is a function of its inputs: the same
\* datetime, draw and identity give equal identifiers; and for two datetimes not
\* before the epoch and below 2^48 ms, the one in a strictly later millisecond
\* gives a strictly greater identifier
C17_LaterIsGreater ==
    SameDrawBothBuilt =>
        /\ dtA.datetime = dtB.datetime => outA = outB
        /\ (/\ LaterMillis(dtA.datetime, dtB.datetime)
            /\ ~BeforeEpoch(dtA.datetime) /\ Below48(dtB.datetime))
               => Lt(outA[1], outB[1])

C17_Witness ==
    /\ SameDrawBothBuilt
    /\ dtA.datetime = [before |-> FALSE, secs |-> Bits(1700000000), nanos |-> 123456789]
    /\ dtB.datetime = [before |-> FALSE, secs |-> Bits(1700000000), nanos |-> 124000000]
    /\ Lt(outA[1], outB[1])

-----------------------------------------------------------------------------
(* SpecStrict: from_parts in a build with the `assert` feature *)

\* from_parts with the assertion on machine_id left out
from_parts_strict_three_checks(ts, rnd, dc, mid) ==
    IF ~Le(ts, bitmask_timestamp_ms)
    THEN [kind |-> "Panic", msg |-> "timestamp_ms must be in the range 0-281474976710655"]
    ELSE IF ~Le(rnd, bitmask_random)
    THEN [kind |-> "Panic", msg |-> "random must be in the range 0-1180591620717411303423"]
    ELSE IF ~Le(dc, bitmask_data_center_id)
    THEN [kind |-> "Panic", msg |-> "data_center_id must be in the range 0-31"]
    ELSE [kind |-> "Ok", val |-> from_parts(ts, rnd, dc, mid)]

\* Sulid::from_parts under #[cfg(feature = "assert")]: the four assert! in
\* their order, then the packing
from_parts_strict(ts, rnd, dc, mid) ==
    IF ~Le(ts, bitmask_timestamp_ms)
    THEN [kind |-> "Panic", msg |-> "timestamp_ms must be in the range 0-281474976710655"]
    ELSE IF ~Le(rnd, bitmask_random)
    THEN [kind |-> "Panic", msg |-> "random must be in the range 0-1180591620717411303423"]
    ELSE IF ~Le(dc, bitmask_data_center_id)
    THEN [kind |-> "Panic", msg |-> "data_center_id must be in the range 0-31"]
    ELSE IF ~Le(mid, bitmask_machine_id)
    THEN [kind |-> "Panic", msg |-> "machine_id must be in the range 0-31"]
    ELSE [kind |-> "Ok", val |-> from_parts(ts, rnd, dc, mid)]

InitStrict ==
    /\ sulid = nil /\ op = "none" /\ self = nil
    /\ res = "Ok" /\ base = nil /\ nIncr = 0
    /\ arg \in PartsSamples
    /\ OrderIdle /\ GenIdle /\ TextIdle /\ DatetimeIdle

\* Sulid::from_parts(t, r, d, m) in strict mode: an identifier or a panic
FromPartsStrict ==
    /\ op = "none"
    /\ LET o == from_parts_strict(arg[1], arg[2], arg[3], arg[4])
       IN /\ res' = o.kind
          /\ sulid' = IF o.kind = "Ok" THEN o.val ELSE sulid
    /\ op' = "from_parts_strict"
    /\ self' = sulid' /\ base' = sulid'
    /\ UNCHANGED <<arg, nIncr, orderVars, genVars, textVars, dtVars>>

NextStrict == FromPartsStrict

SpecStrict == InitStrict /\ [][NextStrict]_vars

\* some argument has a bit beyond the width of its field
ExceedsWidth(a) ==
    \/ ~(a[1] \subseteq 0..(TIME_BITS - 1))
    \/ ~(a[2] \subseteq 0..(RAND_BITS - 1))
    \/ ~(a[3] \subseteq 0..(DATA_CENTER_BITS - 1))
    \/ ~(a[4] \subseteq 0..(MACHINE_BITS - 1))

\* C15: in strict mode from_parts panics exactly when one of timestamp_ms,
\* random, data_center_id, machine_id exceeds its bit width, and otherwise
\* returns the identifier whose four fields are the four arguments
C15_StrictFromParts ==
    op = "from_parts_strict" =>
        /\ res \in {"Ok", "Panic"}
        /\ res = "Panic" <=> ExceedsWidth(arg)
        /\ res = "Panic" => sulid = nil
        /\ res = "Ok" =>
               /\ timestamp_ms(sulid) = arg[1] /\ random(sulid) = arg[2]
               /\ data_center_id(sulid) = arg[3] /\ machine_id(sulid) = arg[4]

C15_Witness ==
    /\ op = "from_parts_strict" /\ res = "Panic"
    /\ arg = <<Bits(1), Bits(2), Bits(32), Bits(0)>>

-----------------------------------------------------------------------------
(* The chain of increments, checked under SpecSulid *)

\* the increments still possible from s: 2^70 - 1 - random(s), which is the
\* complement of random(s) in 70 bits
Remaining(s) == MAX_RANDOM \ random(s)

\* in a chain of increments from base, after nIncr successes: the identifier's
\* random field is random(base) + nIncr, its other fields are those of base, the
\* last increment returned None exactly when nIncr = 2^70 - 1 - random(base),
\* and a Some result is strictly greater than the identifier it came from
C18_Chain ==
    op = "increment" =>
        /\ res \in {"Some", "None"}
        /\ Add(Remaining(sulid), Bits(nIncr), 128).val = Remaining(base)
        /\ res = "None" <=> (Bits(nIncr) = Remaining(base) /\ self = sulid)
        /\ res = "Some" => Lt(self, sulid) /\ Lt(Bits(nIncr - 1), Remaining(base))
        /\ timestamp_ms(sulid) = timestamp_ms(base)
        /\ data_center_id(sulid) = data_center_id(base)
        /\ machine_id(sulid) = machine_id(base)

\* C18: a chain of increments from any identifier s ends: every Some result is
\* strictly greater, keeps the timestamp and identity fields of s and leaves one
\* increment fewer, and None comes after exactly 2^70 - 1 - random(s) successes
C18_ChainEnds ==
    /\ []C18_Chain
    /\ [][op' = "increment" /\ res' = "Some" =>
              /\ Lt(Remaining(sulid'), Remaining(sulid))
              /\ Add(Remaining(sulid'), Bits(1), 128).val = Remaining(sulid)]_vars
    /\ [][op' = "increment" /\ res' = "None" => Remaining(sulid) = {}]_vars

C18_Witness ==
    /\ op = "increment" /\ res = "None" /\ nIncr = 2
    /\ random(base) = {0} \cup (2..69)
    /\ base \cap TimeField = TimeField
    /\ Lt(base, sulid)

====
